---- MODULE Spec2Model ----
(***************************************************************************)
(* Guyton-Klinger withdrawal simulator (src/app.js, src/unnamed/part_000). *)
(*                                                                         *)
(* Numbers are JavaScript numbers with exact (unrounded) finite values:    *)
(* a finite number is a reduced fraction n/d, and the special values       *)
(* -0, +Infinity, -Infinity and NaN behave as IEEE-754 prescribes.         *)
(* `undefined` is the value of a property that was never assigned.         *)
(***************************************************************************)
EXTENDS Integers, Sequences, FiniteSets, TLC

(***************************************************************************)
(* Bounds of the model.                                                    *)
(***************************************************************************)
\* largest simulationYears passed to calculateSimulation in CalcSpec
MaxYears == 2

(***************************************************************************)
(* JavaScript numbers.                                                     *)
(***************************************************************************)
Abs(x) == IF x < 0 THEN -x ELSE x

RECURSIVE GCD(_, _)
GCD(a, b) == IF b = 0 THEN a ELSE GCD(b, a % b)

\* the number n/d (d > 0), reduced; n = 0 gives +0
Num(n, d) ==
    IF n = 0 THEN [k |-> "fin", n |-> 0, d |-> 1]
    ELSE LET g == GCD(Abs(n), d)
         IN  [k |-> "fin", n |-> n \div g, d |-> d \div g]

NegZero   == [k |-> "nzero", n |-> 0, d |-> 1]
PosInf    == [k |-> "pinf",  n |-> 0, d |-> 1]
NegInf    == [k |-> "ninf",  n |-> 0, d |-> 1]
NaN       == [k |-> "nan",   n |-> 0, d |-> 1]
Undefined == [k |-> "undef", n |-> 0, d |-> 1]

\* arithmetic on undefined converts it to NaN first
ToNumber(a) == IF a.k = "undef" THEN NaN ELSE a

IsNaN(a)      == ToNumber(a).k = "nan"
IsInf(a)      == a.k \in {"pinf", "ninf"}
IsZero(a)     == a.k = "nzero" \/ (a.k = "fin" /\ a.n = 0)
IsNegative(a) == a.k \in {"nzero", "ninf"} \/ (a.k = "fin" /\ a.n < 0)
IsFinite(a)   == a.k \in {"fin", "nzero"}

SignedZero(neg) == IF neg THEN NegZero ELSE Num(0, 1)
SignedInf(neg)  == IF neg THEN NegInf ELSE PosInf

NegV(a) ==
    CASE a.k = "nan"   -> NaN
      [] a.k = "pinf"  -> NegInf
      [] a.k = "ninf"  -> PosInf
      [] a.k = "nzero" -> Num(0, 1)
      [] OTHER         -> IF a.n = 0 THEN NegZero ELSE Num(-a.n, a.d)

AddV(a, b) ==
    IF a.k = "nan" \/ b.k = "nan" THEN NaN
    ELSE IF IsInf(a) /\ IsInf(b) THEN (IF a.k = b.k THEN a ELSE NaN)
    ELSE IF IsInf(a) THEN a
    ELSE IF IsInf(b) THEN b
    ELSE IF IsZero(a) /\ IsZero(b)
         THEN SignedZero(IsNegative(a) /\ IsNegative(b))
    ELSE IF IsZero(a) THEN b
    ELSE IF IsZero(b) THEN a
    ELSE LET g == GCD(a.d, b.d)
         IN  Num(a.n * (b.d \div g) + b.n * (a.d \div g), (a.d \div g) * b.d)

MulV(a, b) ==
    IF a.k = "nan" \/ b.k = "nan" THEN NaN
    ELSE IF (IsInf(a) /\ IsZero(b)) \/ (IsZero(a) /\ IsInf(b)) THEN NaN
    ELSE IF IsInf(a) \/ IsInf(b) THEN SignedInf(IsNegative(a) # IsNegative(b))
    ELSE IF IsZero(a) \/ IsZero(b) THEN SignedZero(IsNegative(a) # IsNegative(b))
    ELSE LET g1 == GCD(Abs(a.n), b.d)
             g2 == GCD(Abs(b.n), a.d)
         IN  Num((a.n \div g1) * (b.n \div g2), (a.d \div g2) * (b.d \div g1))

DivV(a, b) ==
    IF a.k = "nan" \/ b.k = "nan" THEN NaN
    ELSE IF (IsZero(a) /\ IsZero(b)) \/ (IsInf(a) /\ IsInf(b)) THEN NaN
    ELSE IF IsInf(a) \/ IsZero(b) THEN SignedInf(IsNegative(a) # IsNegative(b))
    ELSE IF IsInf(b) \/ IsZero(a) THEN SignedZero(IsNegative(a) # IsNegative(b))
    ELSE LET g1 == GCD(Abs(a.n), Abs(b.n))
             g2 == GCD(a.d, b.d)
             num == (Abs(a.n) \div g1) * (b.d \div g2)
             den == (a.d \div g2) * (Abs(b.n) \div g1)
         IN  Num(IF IsNegative(a) # IsNegative(b) THEN -num ELSE num, den)

LtV(a, b) ==
    IF a.k = "nan" \/ b.k = "nan" THEN FALSE
    ELSE IF a.k = "pinf" \/ b.k = "ninf" THEN FALSE
    ELSE IF a.k = "ninf" \/ b.k = "pinf" THEN TRUE
    ELSE a.n * b.d < b.n * a.d

MinV(a, b) ==
    IF a.k = "nan" \/ b.k = "nan" THEN NaN
    ELSE IF LtV(a, b) THEN a
    ELSE IF LtV(b, a) THEN b
    ELSE IF a.k = "nzero" THEN a ELSE b

\* -x, x + y, x - y, x * y, x / y
Neg(x)    == NegV(ToNumber(x))
Add(x, y) == AddV(ToNumber(x), ToNumber(y))
Sub(x, y) == Add(x, Neg(y))
Mul(x, y) == MulV(ToNumber(x), ToNumber(y))
Div(x, y) == DivV(ToNumber(x), ToNumber(y))

\* x < y, x > y, x <= y
Lt(x, y)  == LtV(ToNumber(x), ToNumber(y))
Gt(x, y)  == Lt(y, x)
Leq(x, y) == ~IsNaN(x) /\ ~IsNaN(y) /\ ~Lt(y, x)

\* Math.min(x, y)
MathMin(x, y) == MinV(ToNumber(x), ToNumber(y))

\* the numeric literals of calculateSimulation
Lit0   == Num(0, 1)
Lit1   == Num(1, 1)
Lit100 == Num(100, 1)
Lit6   == Num(6, 1)
Lit1p2 == Num(12, 10)
Lit0p8 == Num(8, 10)
Lit0p9 == Num(9, 10)
Lit1p1 == Num(11, 10)

(***************************************************************************)
(* State.                                                                  *)
(***************************************************************************)
VARIABLES
    version,                   \* the page script: "app" (src/app.js) or
                               \* "mix" (src/unnamed/part_000)
    initialAssetsInput,        \* parseFloat of the initialAssets field
    initialWithdrawalRateInput,\* parseFloat of the initialWithdrawalRate field
    simulationYearsInput,      \* [value: parseInt of the field, readOnly]
    tableContainer,            \* the rows of the input table: [year, return, inflation]
    resultsContainer,          \* [shown, rows]: the results table and its row count
    outcome,                   \* how the last submit ended: "none", "error", "displayed"
    investmentAsset,           \* selected investment dataset ("mix")
    inflationData,             \* selected inflation dataset ("mix")
    loads,                     \* updateForm calls awaiting loadData, in start order
    pc,                        \* where control is: "idle", "calc", "return"
    params,                    \* the argument of the running calculateSimulation
    i,                         \* its loop index
    simulationData,            \* its result array so far
    lastYearActualWithdrawal   \* its carried withdrawal

formVars == <<initialAssetsInput, initialWithdrawalRateInput, simulationYearsInput,
              tableContainer>>
pageVars == <<version, formVars, resultsContainer, outcome, investmentAsset,
              inflationData, loads>>
calcVars == <<pc, params, i, simulationData, lastYearActualWithdrawal>>
vars     == <<pageVars, calcVars>>

(***************************************************************************)
(* calculateSimulation, statement by statement.                            *)
(***************************************************************************)
RuleInitial   == "Initial"
RuleInflation == "Inflation"
RuleFrozen    == "InflationFrozen"
RuleLower     == "CapitalPreservation"
RuleUpper     == "Prosperity"

\* arr[idx] of a JavaScript array (idx counted from 0)
At(arr, idx) == IF idx + 1 \in DOMAIN arr THEN arr[idx + 1] ELSE Undefined

\* let lastYearActualWithdrawal = initialAssets * (initialWithdrawalRate / 100)
InitialWithdrawal(initialAssets, initialWithdrawalRate) ==
    Mul(initialAssets, Div(initialWithdrawalRate, Lit100))

lowerGuardrail(initialWithdrawalRate) == Mul(initialWithdrawalRate, Lit1p2)
upperGuardrail(initialWithdrawalRate) == Mul(initialWithdrawalRate, Lit0p8)

\* variant of StartWorth: the year starts from the previous balance before
\* the return was applied
StartWorthFromBalance(idx, initialAssets, data) ==
    IF idx = 0 THEN initialAssets ELSE At(data, idx - 1).postWithdrawalBalance

\* yearData.startWorth = (i === 0) ? initialAssets : simulationData[i - 1].endWorth
StartWorth(idx, initialAssets, data) ==
    IF idx = 0 THEN initialAssets ELSE At(data, idx - 1).endWorth

\* variant of InitialYear: the first year is labelled as an inflation year
InitialYearAsInflation(last) ==
    [inflation         |-> Lit0,
     plannedWithdrawal |-> last,
     plannedRate       |-> Undefined,
     rule              |-> RuleInflation,
     actualWithdrawal  |-> last]

\* the i === 0 branch
InitialYear(last) ==
    [inflation         |-> Lit0,
     plannedWithdrawal |-> last,
     plannedRate       |-> Undefined,
     rule              |-> RuleInitial,
     actualWithdrawal  |-> last]

\* variant of InflationToApply: no cap
InflationUncapped(inflation) == inflation

\* const inflationToApply = Math.min(yearData.inflation, 6.0)
InflationToApply(inflation) == MathMin(inflation, Lit6)

\* lastYearActualWithdrawal * (1 + inflationToApply / 100)
PlannedWithdrawalWithInflation(last, inflation) ==
    Mul(last, Add(Lit1, Div(InflationToApply(inflation), Lit100)))

\* (plannedWithdrawalWithInflation / yearData.startWorth) * 100
RateOf(withdrawal, startWorth) == Mul(Div(withdrawal, startWorth), Lit100)

\* variant of FreezeApplies: the previous return is not looked at
FreezeIgnoresReturn(prevReturn, plannedRateWithInflation, initialWithdrawalRate) ==
    Gt(plannedRateWithInflation, initialWithdrawalRate)

\* variant of FreezeApplies: the sign test on the previous return is inverted
FreezeOnGain(prevReturn, plannedRateWithInflation, initialWithdrawalRate) ==
    Gt(prevReturn, Lit0) /\ Gt(plannedRateWithInflation, initialWithdrawalRate)

\* prevReturn < 0 && plannedRateWithInflation > initialWithdrawalRate
FreezeApplies(prevReturn, plannedRateWithInflation, initialWithdrawalRate) ==
    Lt(prevReturn, Lit0) /\ Gt(plannedRateWithInflation, initialWithdrawalRate)

\* the inflation / inflation-freeze decision of a year i > 0
PlanYear(prevReturn, last, inflation, startWorth, initialWithdrawalRate) ==
    LET withInflation == PlannedWithdrawalWithInflation(last, inflation)
        rateWithInflation == RateOf(withInflation, startWorth)
    IN  IF FreezeApplies(prevReturn, rateWithInflation, initialWithdrawalRate)
        THEN [plannedWithdrawal |-> last, rule |-> RuleFrozen]
        ELSE [plannedWithdrawal |-> withInflation, rule |-> RuleInflation]

\* variant of ApplyGuardrails: the prosperity test comes first
ApplyGuardrailsUpperFirst(plan, plannedRate, initialWithdrawalRate) ==
    IF Lt(plannedRate, upperGuardrail(initialWithdrawalRate))
    THEN [rule |-> RuleUpper,
          actualWithdrawal |-> Mul(plan.plannedWithdrawal, Lit1p1)]
    ELSE IF Gt(plannedRate, lowerGuardrail(initialWithdrawalRate))
    THEN [rule |-> RuleLower,
          actualWithdrawal |-> Mul(plan.plannedWithdrawal, Lit0p9)]
    ELSE [rule |-> plan.rule, actualWithdrawal |-> plan.plannedWithdrawal]

\* variant of ApplyGuardrails: prosperity is tested as plannedRate above the
\* upper guardrail
ApplyGuardrailsUpperAbove(plan, plannedRate, initialWithdrawalRate) ==
    IF Gt(plannedRate, lowerGuardrail(initialWithdrawalRate))
    THEN [rule |-> RuleLower,
          actualWithdrawal |-> Mul(plan.plannedWithdrawal, Lit0p9)]
    ELSE IF Gt(plannedRate, upperGuardrail(initialWithdrawalRate))
    THEN [rule |-> RuleUpper,
          actualWithdrawal |-> Mul(plan.plannedWithdrawal, Lit1p1)]
    ELSE [rule |-> plan.rule, actualWithdrawal |-> plan.plannedWithdrawal]

\* the guardrail if / else if of a year i > 0
ApplyGuardrails(plan, plannedRate, initialWithdrawalRate) ==
    IF Gt(plannedRate, lowerGuardrail(initialWithdrawalRate))
    THEN [rule |-> RuleLower,
          actualWithdrawal |-> Mul(plan.plannedWithdrawal, Lit0p9)]
    ELSE IF Lt(plannedRate, upperGuardrail(initialWithdrawalRate))
    THEN [rule |-> RuleUpper,
          actualWithdrawal |-> Mul(plan.plannedWithdrawal, Lit1p1)]
    ELSE [rule |-> plan.rule, actualWithdrawal |-> plan.plannedWithdrawal]

\* the else branch (i > 0)
LaterYear(idx, p, data, last, startWorth) ==
    LET inflation   == At(p.annualInflations, idx)
        prevReturn  == At(data, idx - 1).returnRate
        plan        == PlanYear(prevReturn, last, inflation, startWorth,
                                p.initialWithdrawalRate)
        plannedRate == RateOf(plan.plannedWithdrawal, startWorth)
        final       == ApplyGuardrails(plan, plannedRate, p.initialWithdrawalRate)
    IN  [inflation         |-> inflation,
         plannedWithdrawal |-> plan.plannedWithdrawal,
         plannedRate       |-> plannedRate,
         rule              |-> final.rule,
         actualWithdrawal  |-> final.actualWithdrawal]

\* variant of PostWithdrawalBalance: the planned amount is subtracted
BalanceFromPlanned(startWorth, y) == Sub(startWorth, y.plannedWithdrawal)

\* yearData.postWithdrawalBalance = yearData.startWorth - yearData.actualWithdrawal
PostWithdrawalBalance(startWorth, y) == Sub(startWorth, y.actualWithdrawal)

\* yearData.returnRate = annualReturns[i]
ReturnRate(p, idx) == At(p.annualReturns, idx)

\* yearData.year = i (app.js), yearData.year = annualData[i].year (part_000)
YearLabel(p, idx) == IF version = "mix" THEN At(p.annualYears, idx) ELSE idx

\* the statements after the if / else, common to all years
Finalize(idx, p, startWorth, y) ==
    LET post == PostWithdrawalBalance(startWorth, y)
        ret  == ReturnRate(p, idx)
    IN  [year                  |-> YearLabel(p, idx),
         startWorth            |-> startWorth,
         inflation             |-> y.inflation,
         plannedWithdrawal     |-> y.plannedWithdrawal,
         plannedRate           |-> y.plannedRate,
         rule                  |-> y.rule,
         actualWithdrawal      |-> y.actualWithdrawal,
         actualRate            |-> RateOf(y.actualWithdrawal, startWorth),
         postWithdrawalBalance |-> post,
         returnRate            |-> ret,
         endWorth              |-> Mul(post, Add(Lit1, Div(ret, Lit100)))]

\* variant of YearData: the first year's withdrawal is inflation-adjusted with
\* annualInflations[0]
YearDataInflatedFirst(idx, p, data, last) ==
    LET startWorth == StartWorth(idx, p.initialAssets, data)
        first == PlannedWithdrawalWithInflation(last, At(p.annualInflations, 0))
    IN  Finalize(idx, p, startWorth,
                 IF idx = 0
                 THEN [InitialYear(last) EXCEPT !.plannedWithdrawal = first,
                                                !.actualWithdrawal = first]
                 ELSE LaterYear(idx, p, data, last, startWorth))

\* one iteration of the for loop: the yearData pushed for index idx
YearData(idx, p, data, last) ==
    LET startWorth == StartWorth(idx, p.initialAssets, data)
    IN  Finalize(idx, p, startWorth,
                 IF idx = 0 THEN InitialYear(last)
                 ELSE LaterYear(idx, p, data, last, startWorth))

\* variant of LoopGuard: the loop also ends once the portfolio is exhausted
LoopGuardSolvent(idx, p, data) ==
    /\ Lt(Num(idx, 1), p.simulationYears)
    /\ ~(idx > 0 /\ Leq(At(data, idx - 1).endWorth, Lit0))

\* the loop condition i < simulationYears
LoopGuard(idx, p, data) == Lt(Num(idx, 1), p.simulationYears)

\* the whole function, as a fold
RECURSIVE CalcFrom(_, _, _, _)
CalcFrom(idx, p, data, last) ==
    IF LoopGuard(idx, p, data)
    THEN LET y == YearData(idx, p, data, last)
         IN  CalcFrom(idx + 1, p, Append(data, y), y.actualWithdrawal)
    ELSE data

calculateSimulation(p) ==
    CalcFrom(0, p, <<>>, InitialWithdrawal(p.initialAssets, p.initialWithdrawalRate))

(***************************************************************************)
(* Actions of calculateSimulation.                                         *)
(***************************************************************************)
\* one pass through the loop body
CalcStep ==
    /\ pc = "calc"
    /\ LoopGuard(i, params, simulationData)
    /\ LET y == YearData(i, params, simulationData, lastYearActualWithdrawal)
       IN  /\ simulationData' = Append(simulationData, y)
           /\ lastYearActualWithdrawal' = y.actualWithdrawal
    /\ i' = i + 1
    /\ UNCHANGED <<pc, params, pageVars>>

\* return simulationData
CalcReturn ==
    /\ pc = "calc"
    /\ ~LoopGuard(i, params, simulationData)
    /\ pc' = "return"
    /\ UNCHANGED <<params, i, simulationData, lastYearActualWithdrawal, pageVars>>

(***************************************************************************)
(* CalcSpec: calculateSimulation called on every input of a bounded set.   *)
(***************************************************************************)
CalcAssets     == {Num(100, 1), Num(0, 1), NaN}
CalcRates      == {Num(5, 1), Num(-5, 1)}
CalcReturns    == {Num(-100, 1), Num(-50, 1), Num(-10, 1), Num(10, 1), Num(50, 1)}
CalcInflations == {Num(0, 1), Num(8, 1)}

SeqsOfLen(S, n) == [1..n -> S]

\* a page on which nothing has happened yet
BlankPage ==
    /\ initialAssetsInput = NaN
    /\ initialWithdrawalRateInput = NaN
    /\ simulationYearsInput = [value |-> NaN, readOnly |-> FALSE]
    /\ tableContainer = <<>>
    /\ resultsContainer = [shown |-> FALSE, rows |-> 0]
    /\ outcome = "none"
    /\ investmentAsset = "none"
    /\ inflationData = "none"
    /\ loads = <<>>

\* the params of app.js carry no years; those of part_000 carry each row's year
CalcYears(n) == IF version = "mix" THEN [k \in 1 .. n |-> 1999 + k] ELSE <<>>

CalcInit ==
    /\ version \in {"app", "mix"}
    /\ BlankPage
    /\ pc = "calc"
    /\ \E n \in 1..MaxYears :
         \E a \in CalcAssets, w \in CalcRates :
           \E rs \in SeqsOfLen(CalcReturns, n), fs \in SeqsOfLen(CalcInflations, n) :
              params = [initialAssets         |-> a,
                        initialWithdrawalRate |-> w,
                        simulationYears       |-> Num(n, 1),
                        annualYears           |-> CalcYears(n),
                        annualReturns         |-> rs,
                        annualInflations      |-> fs]
    /\ i = 0
    /\ simulationData = <<>>
    /\ lastYearActualWithdrawal =
           InitialWithdrawal(params.initialAssets, params.initialWithdrawalRate)

CalcNext == CalcStep \/ CalcReturn

CalcSpec == CalcInit /\ [][CalcNext]_vars

(***************************************************************************)
(* The page: form, input table, dataset loading and the submit handler.    *)
(***************************************************************************)
\* largest simulationYears a user types into the field
MaxRows == 2
\* most updateForm calls awaiting their data at once
MaxLoads == 2
\* generateInputTable (app.js) ignores more years than this
MaxTableYears == 100

\* const defaultReturns, const defaultInflations (app.js)
defaultReturns ==
    <<
       Num(-708, 100), Num(-1122, 100), Num(-3191, 100), Num(1179, 100), Num(733, 100),
       Num(2859, 100), Num(886, 100), Num(36, 100), Num(-3849, 100), Num(3081, 100),
       Num(2206, 100), Num(-382, 100), Num(1454, 100), Num(1810, 100), Num(1894, 100),
       Num(947, 100), Num(1205, 100), Num(954, 100), Num(-461, 100), Num(2974, 100),
       Num(695, 100), Num(2897, 100), Num(-1288, 100), Num(1854, 100), Num(2564, 100)
    >>
defaultInflations ==
    <<
       Num(0, 10), Num(34, 10), Num(28, 10), Num(16, 10), Num(23, 10),
       Num(27, 10), Num(34, 10), Num(32, 10), Num(29, 10), Num(38, 10),
       Num(-4, 10), Num(16, 10), Num(32, 10), Num(21, 10), Num(15, 10),
       Num(16, 10), Num(1, 10), Num(13, 10), Num(21, 10), Num(24, 10),
       Num(18, 10), Num(12, 10), Num(47, 10), Num(80, 10), Num(41, 10)
    >>

\* defaultReturns[i] !== undefined ? defaultReturns[i] : 7, and the same with 2
DefaultReturn(idx) ==
    IF At(defaultReturns, idx) # Undefined THEN At(defaultReturns, idx) ELSE Num(7, 1)
DefaultInflation(idx) ==
    IF At(defaultInflations, idx) # Undefined THEN At(defaultInflations, idx) ELSE Num(2, 1)

\* x || 0 on a number
OrZero(x) == IF IsNaN(x) \/ IsZero(x) THEN Lit0 ELSE x

\* the table generateInputTable (app.js) leaves in tableContainer
generateInputTable(value, table) ==
    LET years == OrZero(value)
    IN  IF Leq(years, Lit0) \/ Gt(years, Num(MaxTableYears, 1)) THEN table
        ELSE [idx \in 1 .. years.n |->
                 [year      |-> 2000 + (idx - 1),
                  return    |-> DefaultReturn(idx - 1),
                  inflation |-> DefaultInflation(idx - 1)]]

\* the dataset files ./data/investments/<name>.json and ./data/inflation/<name>.json
InvestmentNames == {"stocks", "bonds"}
InflationNames  == {"cpi", "old"}
InvestmentFile(name) ==
    IF name = "stocks"
    THEN <<[year |-> 2000, return |-> Num(-50, 1)], [year |-> 2001, return |-> Num(10, 1)]>>
    ELSE <<[year |-> 2001, return |-> Num(50, 1)]>>
InflationFile(name) ==
    IF name = "cpi"
    THEN <<[year |-> 2000, inflation |-> Num(0, 1)], [year |-> 2001, inflation |-> Num(8, 1)]>>
    ELSE <<[year |-> 1990, inflation |-> Num(8, 1)]>>

\* combineData (part_000): the investment items whose year has an inflation entry
combineData(investmentItems, inflationItems) ==
    LET has(item) == \E k \in DOMAIN inflationItems : inflationItems[k].year = item.year
        last(y)   == CHOOSE k \in DOMAIN inflationItems :
                        /\ inflationItems[k].year = y
                        /\ \A m \in DOMAIN inflationItems :
                              inflationItems[m].year = y => m <= k
        kept      == SelectSeq(investmentItems, has)
    IN  [k \in DOMAIN kept |->
            [year      |-> kept[k].year,
             return    |-> kept[k].return,
             inflation |-> inflationItems[last(kept[k].year)].inflation]]

\* values a user puts into the fields
FormAssets     == {Num(100, 1), NaN}
FormRates      == {Num(5, 1), NaN}
FormReturns    == {Num(-50, 1), NaN}
FormInflations == {Num(8, 1), NaN}
TypedYears     == {NaN, Lit0, Num(MaxTableYears + 1, 1)} \cup {Num(n, 1) : n \in 1 .. MaxRows}

NoParams == [initialAssets         |-> NaN,
             initialWithdrawalRate |-> NaN,
             simulationYears       |-> Lit0,
             annualYears           |-> <<>>,
             annualReturns         |-> <<>>,
             annualInflations      |-> <<>>]

\* no calculateSimulation call is active
CalcIdle ==
    /\ pc = "idle"
    /\ params = NoParams
    /\ i = 0
    /\ simulationData = <<>>
    /\ lastYearActualWithdrawal = Undefined

NoResults == [shown |-> FALSE, rows |-> 0]

\* the state when the DOMContentLoaded callback has run: app.js has generated
\* its table for the field's initial value, part_000 has started updateForm
Init ==
    /\ version \in {"app", "mix"}
    /\ initialAssetsInput \in FormAssets
    /\ initialWithdrawalRateInput \in FormRates
    /\ \E v \in TypedYears : simulationYearsInput = [value |-> v, readOnly |-> FALSE]
    /\ resultsContainer = NoResults
    /\ outcome = "none"
    /\ IF version = "app"
       THEN /\ tableContainer = generateInputTable(simulationYearsInput.value, <<>>)
            /\ investmentAsset = "none"
            /\ inflationData = "none"
            /\ loads = <<>>
       ELSE /\ tableContainer = <<>>
            /\ investmentAsset \in InvestmentNames
            /\ inflationData \in InflationNames
            /\ loads = <<[investment |-> investmentAsset, inflation |-> inflationData]>>
    /\ CalcIdle

\* the user edits the initialAssets field
SetInitialAssets(v) ==
    /\ pc = "idle"
    /\ initialAssetsInput' = v
    /\ UNCHANGED <<version, initialWithdrawalRateInput, simulationYearsInput,
                   tableContainer, resultsContainer, outcome, investmentAsset,
                   inflationData, loads, calcVars>>

\* the user edits the initialWithdrawalRate field
SetInitialWithdrawalRate(v) ==
    /\ pc = "idle"
    /\ initialWithdrawalRateInput' = v
    /\ UNCHANGED <<version, initialAssetsInput, simulationYearsInput,
                   tableContainer, resultsContainer, outcome, investmentAsset,
                   inflationData, loads, calcVars>>

\* the user edits the simulationYears field; app.js listens and regenerates
\* the table, part_000 has no listener on it
SetSimulationYears(v) ==
    /\ pc = "idle"
    /\ ~simulationYearsInput.readOnly
    /\ simulationYearsInput' = [simulationYearsInput EXCEPT !.value = v]
    /\ tableContainer' = IF version = "app"
                         THEN generateInputTable(v, tableContainer)
                         ELSE tableContainer
    /\ UNCHANGED <<version, initialAssetsInput, initialWithdrawalRateInput,
                   resultsContainer, outcome, investmentAsset, inflationData,
                   loads, calcVars>>

\* the user edits a cell of the input table
SetReturn(row, v) ==
    /\ pc = "idle"
    /\ row \in DOMAIN tableContainer
    /\ tableContainer' = [tableContainer EXCEPT ![row].return = v]
    /\ UNCHANGED <<version, initialAssetsInput, initialWithdrawalRateInput,
                   simulationYearsInput, resultsContainer, outcome,
                   investmentAsset, inflationData, loads, calcVars>>

SetInflation(row, v) ==
    /\ pc = "idle"
    /\ row \in DOMAIN tableContainer
    /\ tableContainer' = [tableContainer EXCEPT ![row].inflation = v]
    /\ UNCHANGED <<version, initialAssetsInput, initialWithdrawalRateInput,
                   simulationYearsInput, resultsContainer, outcome,
                   investmentAsset, inflationData, loads, calcVars>>

\* updateForm up to its await: the selection is read and loadData is started
StartUpdateForm(investment, inflation) ==
    /\ pc = "idle"
    /\ version = "mix"
    /\ Len(loads) < MaxLoads
    /\ investmentAsset' = investment
    /\ inflationData' = inflation
    /\ loads' = Append(loads, [investment |-> investment, inflation |-> inflation])
    /\ UNCHANGED <<version, formVars, resultsContainer, outcome, calcVars>>

\* change event of the investment selector
ChangeInvestment(v) == v # investmentAsset /\ StartUpdateForm(v, inflationData)

\* change event of the inflation selector
ChangeInflation(v) == v # inflationData /\ StartUpdateForm(investmentAsset, v)

RemoveAt(seq, k) == SubSeq(seq, 1, k - 1) \o SubSeq(seq, k + 1, Len(seq))

\* updateForm after its await, loadData having resolved
LoadSucceeds(k) ==
    /\ pc = "idle"
    /\ k \in DOMAIN loads
    /\ LET combinedData == combineData(InvestmentFile(loads[k].investment),
                                       InflationFile(loads[k].inflation))
       IN  /\ simulationYearsInput' =
                 [value |-> Num(Len(combinedData), 1), readOnly |-> TRUE]
           /\ tableContainer' = combinedData
    /\ resultsContainer' = NoResults
    /\ loads' = RemoveAt(loads, k)
    /\ UNCHANGED <<version, initialAssetsInput, initialWithdrawalRateInput,
                   outcome, investmentAsset, inflationData, calcVars>>

\* updateForm after its await, loadData having thrown: the container shows
\* the error message and holds no table
LoadFails(k) ==
    /\ pc = "idle"
    /\ k \in DOMAIN loads
    /\ tableContainer' = <<>>
    /\ loads' = RemoveAt(loads, k)
    /\ UNCHANGED <<version, initialAssetsInput, initialWithdrawalRateInput,
                   simulationYearsInput, resultsContainer, outcome,
                   investmentAsset, inflationData, calcVars>>

\* part_000 only: if (simulationYears === 0) throw
ZeroYearsThrows(years) == version = "mix" /\ IsZero(years)

\* the read loop of runSimulationHandler throws: a row it visits is missing
\* (getElementById gives null) or holds a value that parses to NaN
ReadThrows(years, table) ==
    \E idx \in 0 .. Len(table) :
        /\ Lt(Num(idx, 1), years)
        /\ IF idx >= Len(table) THEN TRUE
           ELSE IsNaN(table[idx + 1].return) \/ IsNaN(table[idx + 1].inflation)

\* what runSimulationHandler throws on, before calculateSimulation is called
HandlerThrows(years, table) == ZeroYearsThrows(years) \/ ReadThrows(years, table)

\* how many rows the read loop has pushed when it ends normally
RowsRead(years) == IF Gt(years, Lit0) THEN years.n ELSE 0

\* submit, with the read loop throwing: the catch block alerts and clears the results
SubmitRejected ==
    /\ pc = "idle"
    /\ HandlerThrows(simulationYearsInput.value, tableContainer)
    /\ outcome' = "error"
    /\ resultsContainer' = NoResults
    /\ UNCHANGED <<version, formVars, investmentAsset, inflationData, loads, calcVars>>

\* submit, up to the call of calculateSimulation
SubmitAccepted ==
    /\ pc = "idle"
    /\ ~HandlerThrows(simulationYearsInput.value, tableContainer)
    /\ pc' = "calc"
    /\ params' =
          [initialAssets         |-> initialAssetsInput,
           initialWithdrawalRate |-> initialWithdrawalRateInput,
           simulationYears       |-> simulationYearsInput.value,
           annualYears           |->
               IF version = "mix"
               THEN [k \in 1 .. RowsRead(simulationYearsInput.value) |-> tableContainer[k].year]
               ELSE <<>>,
           annualReturns         |->
               [k \in 1 .. RowsRead(simulationYearsInput.value) |-> tableContainer[k].return],
           annualInflations      |->
               [k \in 1 .. RowsRead(simulationYearsInput.value) |-> tableContainer[k].inflation]]
    /\ i' = 0
    /\ simulationData' = <<>>
    /\ lastYearActualWithdrawal' =
          InitialWithdrawal(initialAssetsInput, initialWithdrawalRateInput)
    /\ UNCHANGED pageVars

\* displayResults(results) and the end of the handler
DisplayResults ==
    /\ pc = "return"
    /\ resultsContainer' = [shown |-> TRUE, rows |-> Len(simulationData)]
    /\ outcome' = "displayed"
    /\ pc' = "idle"
    /\ params' = NoParams
    /\ i' = 0
    /\ simulationData' = <<>>
    /\ lastYearActualWithdrawal' = Undefined
    /\ UNCHANGED <<version, formVars, investmentAsset, inflationData, loads>>

Edit ==
    \/ \E v \in FormAssets : SetInitialAssets(v)
    \/ \E v \in FormRates : SetInitialWithdrawalRate(v)
    \/ \E v \in TypedYears : SetSimulationYears(v)
    \/ \E row \in 1 .. MaxRows, v \in FormReturns : SetReturn(row, v)
    \/ \E row \in 1 .. MaxRows, v \in FormInflations : SetInflation(row, v)

Load ==
    \/ \E v \in InvestmentNames : ChangeInvestment(v)
    \/ \E v \in InflationNames : ChangeInflation(v)
    \/ \E k \in 1 .. MaxLoads : LoadSucceeds(k)
    \/ \E k \in 1 .. MaxLoads : LoadFails(k)

Next ==
    \/ Edit
    \/ Load
    \/ SubmitRejected
    \/ SubmitAccepted
    \/ CalcStep
    \/ CalcReturn
    \/ DisplayResults

Spec == Init /\ [][Next]_vars

(***************************************************************************)
(* Claims about calculateSimulation (checked under CalcSpec).              *)
(***************************************************************************)
\* the record of year j (counted from 0) and the indices present so far
Rec(j)     == simulationData[j + 1]
Years      == 0 .. Len(simulationData) - 1
LaterYears == 1 .. Len(simulationData) - 1
Lit1p06    == Num(106, 100)

\* plannedWithdrawal / startWorth * 100 of a record
PlannedRateOfRec(r) == Mul(Div(r.plannedWithdrawal, r.startWorth), Lit100)

\* lastActualWithdrawal * (1 + min(inflation[j], 6) / 100) of year j > 0
WithInflationAt(j) ==
    Mul(Rec(j - 1).actualWithdrawal,
        Add(Lit1, Div(MathMin(params.annualInflations[j + 1], Lit6), Lit100)))

\* the inflation-freeze condition of year j > 0, against the fixed initial rate
FreezeConditionAt(j) ==
    /\ Lt(params.annualReturns[j], Lit0)
    /\ Gt(Mul(Div(WithInflationAt(j), Rec(j).startWorth), Lit100),
          params.initialWithdrawalRate)

\* C1: in every year j > 0 the guardrails are evaluated on plannedRate =
\* plannedWithdrawal / startWorth * 100, capital preservation first: above
\* initialWithdrawalRate * 1.2 the rule is CapitalPreservation and the actual
\* withdrawal is plannedWithdrawal * 0.9; else below initialWithdrawalRate * 0.8
\* the rule is Prosperity and the actual withdrawal is plannedWithdrawal * 1.1;
\* otherwise the actual withdrawal is the planned one and the rule is Inflation
\* or InflationFrozen.
C1_Guardrails ==
    \A j \in LaterYears :
        LET r    == Rec(j)
            rate == PlannedRateOfRec(r)
        IN  /\ r.plannedRate = rate
            /\ IF Gt(rate, Mul(params.initialWithdrawalRate, Lit1p2))
               THEN /\ r.rule = RuleLower
                    /\ r.actualWithdrawal = Mul(r.plannedWithdrawal, Lit0p9)
               ELSE IF Lt(rate, Mul(params.initialWithdrawalRate, Lit0p8))
               THEN /\ r.rule = RuleUpper
                    /\ r.actualWithdrawal = Mul(r.plannedWithdrawal, Lit1p1)
               ELSE /\ r.rule \in {RuleInflation, RuleFrozen}
                    /\ r.actualWithdrawal = r.plannedWithdrawal

\* a year in which both guardrail comparisons are true (negative initial rate)
\* and capital preservation, checked first, is the rule that applied
C1_Witness ==
    \E j \in LaterYears :
        /\ Gt(Rec(j).plannedRate, Mul(params.initialWithdrawalRate, Lit1p2))
        /\ Lt(Rec(j).plannedRate, Mul(params.initialWithdrawalRate, Lit0p8))
        /\ Rec(j).rule = RuleLower
        /\ Rec(j).actualWithdrawal = Mul(Rec(j).plannedWithdrawal, Lit0p9)

\* C2 as stated: in every year j > 0 plannedWithdrawal equals the previous
\* actualWithdrawal unchanged exactly when the freeze condition holds, and is
\* the inflation-adjusted amount in every other case.
C2_AsStated ==
    \A j \in LaterYears :
        /\ (Rec(j).plannedWithdrawal = Rec(j - 1).actualWithdrawal)
              <=> FreezeConditionAt(j)
        /\ ~FreezeConditionAt(j) => Rec(j).plannedWithdrawal = WithInflationAt(j)

\* C2 as amended: in every year j > 0, if the previous return is negative and
\* the inflation-adjusted rate exceeds the fixed initial rate, plannedWithdrawal
\* is the previous actualWithdrawal unchanged; in every other case it is
\* lastActualWithdrawal * (1 + min(inflation, 6) / 100), which may coincide
\* with the unchanged amount (inflation 0, or a zero withdrawal).
C2_FreezeOrInflate ==
    \A j \in LaterYears :
        /\ FreezeConditionAt(j)
              => Rec(j).plannedWithdrawal = Rec(j - 1).actualWithdrawal
        /\ ~FreezeConditionAt(j) => Rec(j).plannedWithdrawal = WithInflationAt(j)

\* a frozen year whose inflation-adjusted amount would have differed
C2_Witness ==
    \E j \in LaterYears :
        /\ FreezeConditionAt(j)
        /\ WithInflationAt(j) # Rec(j - 1).actualWithdrawal
        /\ Rec(j).plannedWithdrawal = Rec(j - 1).actualWithdrawal

\* the premise of C3: two years or more, positive assets and rate, a negative
\* return in year 0 and year 1's inflation-adjusted rate above the initial rate
C3_Premise ==
    /\ Len(simulationData) >= 2
    /\ Gt(params.initialAssets, Lit0)
    /\ Gt(params.initialWithdrawalRate, Lit0)
    /\ FreezeConditionAt(1)

\* C3 as stated: under the premise, year 1 has rule InflationFrozen and its
\* actualWithdrawal equals year 0's.
C3_AsStated ==
    C3_Premise =>
        /\ Rec(1).rule = RuleFrozen
        /\ Rec(1).actualWithdrawal = Rec(0).actualWithdrawal

\* C3 as amended: under the premise, year 1's plannedWithdrawal equals year 0's
\* actualWithdrawal unchanged, and when year 1's plannedRate is neither above
\* initialWithdrawalRate * 1.2 nor below initialWithdrawalRate * 0.8 the record
\* has rule InflationFrozen and its actualWithdrawal equals year 0's.
C3_FrozenUnlessGuardrail ==
    C3_Premise =>
        /\ Rec(1).plannedWithdrawal = Rec(0).actualWithdrawal
        /\ (/\ ~Gt(PlannedRateOfRec(Rec(1)), Mul(params.initialWithdrawalRate, Lit1p2))
            /\ ~Lt(PlannedRateOfRec(Rec(1)), Mul(params.initialWithdrawalRate, Lit0p8)))
           => /\ Rec(1).rule = RuleFrozen
              /\ Rec(1).actualWithdrawal = Rec(0).actualWithdrawal

\* the premise holds, inflation is positive and year 1 stays frozen
C3_Witness ==
    /\ C3_Premise
    /\ Gt(params.annualInflations[2], Lit0)
    /\ Rec(1).rule = RuleFrozen
    /\ Rec(1).actualWithdrawal = Rec(0).actualWithdrawal

\* C4: in every year j > 0 with a positive carried withdrawal,
\* plannedWithdrawal[j] <= actualWithdrawal[j-1] * 1.06, whatever inflation[j].
C4_InflationCap ==
    \A j \in LaterYears :
        Gt(Rec(j - 1).actualWithdrawal, Lit0)
           => Leq(Rec(j).plannedWithdrawal,
                  Mul(Rec(j - 1).actualWithdrawal, Lit1p06))

\* a year with inflation above 6 whose planned withdrawal is exactly 6% up
C4_Witness ==
    \E j \in LaterYears :
        /\ Gt(Rec(j - 1).actualWithdrawal, Lit0)
        /\ Gt(params.annualInflations[j + 1], Lit6)
        /\ Rec(j).plannedWithdrawal = Mul(Rec(j - 1).actualWithdrawal, Lit1p06)

\* C5: startWorth[0] is initialAssets and startWorth[j] is endWorth[j-1] for
\* every j > 0.
C5_Chaining ==
    /\ Len(simulationData) >= 1 => Rec(0).startWorth = params.initialAssets
    /\ \A j \in LaterYears : Rec(j).startWorth = Rec(j - 1).endWorth

\* a finished run of two or more years in which a guardrail fired and the
\* worth moved away from the initial assets
C5_Witness ==
    /\ pc = "return"
    /\ Len(simulationData) >= 2
    /\ Rec(1).rule \in {RuleLower, RuleUpper}
    /\ Rec(1).startWorth # params.initialAssets
    /\ Rec(1).startWorth = Rec(0).endWorth

\* C6: in every year j (year 0 included) postWithdrawalBalance is startWorth
\* minus the actual (post-guardrail) withdrawal, and endWorth is that balance
\* times (1 + returnPercent/100) with the year's own input return.
C6_BalanceIdentity ==
    \A j \in Years :
        LET r == Rec(j)
        IN  /\ r.returnRate = params.annualReturns[j + 1]
            /\ r.postWithdrawalBalance = Sub(r.startWorth, r.actualWithdrawal)
            /\ r.endWorth = Mul(r.postWithdrawalBalance,
                                Add(Lit1, Div(params.annualReturns[j + 1], Lit100)))

\* a year whose guardrail changed the withdrawal, so that the balance computed
\* from the actual amount differs from the one the planned amount would give
C6_Witness ==
    \E j \in LaterYears :
        /\ Rec(j).rule = RuleLower
        /\ Rec(j).actualWithdrawal # Rec(j).plannedWithdrawal
        /\ Rec(j).postWithdrawalBalance
              = Sub(Rec(j).startWorth, Rec(j).actualWithdrawal)
        /\ Rec(j).postWithdrawalBalance
              # Sub(Rec(j).startWorth, Rec(j).plannedWithdrawal)

\* C8: record 0 has rule Initial, inflation 0 and plannedWithdrawal =
\* actualWithdrawal = initialAssets * initialWithdrawalRate / 100; no later
\* record has rule Initial; a run with years = 1 returns exactly one record,
\* with rule Initial.
C8_InitialYear ==
    /\ Len(simulationData) >= 1 =>
          /\ Rec(0).rule = RuleInitial
          /\ Rec(0).inflation = Lit0
          /\ Rec(0).plannedWithdrawal =
                Div(Mul(params.initialAssets, params.initialWithdrawalRate), Lit100)
          /\ Rec(0).actualWithdrawal = Rec(0).plannedWithdrawal
    /\ \A j \in LaterYears : Rec(j).rule # RuleInitial
    /\ (pc = "return" /\ params.simulationYears = Lit1) =>
          /\ Len(simulationData) = 1
          /\ Rec(0).rule = RuleInitial

\* a returned one-year run whose initial rate lies outside its own guardrail
\* band (a negative rate), and that still carries rule Initial unadjusted
C8_Witness ==
    /\ pc = "return"
    /\ params.simulationYears = Lit1
    /\ Len(simulationData) = 1
    /\ Rec(0).rule = RuleInitial
    /\ Gt(Rec(0).actualRate, Mul(params.initialWithdrawalRate, Lit1p2))

\* C9: with years = number of annual data records >= 1 the function terminates
\* and returns exactly `years` records, one per input year in input order, also
\* when startWorth is zero or negative in some year: the loop index counts the
\* records pushed and never passes `years`, and the function returns only with
\* every year's record in place.
C9_ReturnsAllYears ==
    /\ i = Len(simulationData)
    /\ Leq(Num(i, 1), params.simulationYears)
    /\ pc = "return" =>
          /\ Num(Len(simulationData), 1) = params.simulationYears
          /\ \A j \in Years :
                /\ Rec(j).year = IF version = "mix" THEN params.annualYears[j + 1] ELSE j
                /\ Rec(j).returnRate = params.annualReturns[j + 1]

\* a returned run in which a year started with nothing (or less) and the
\* years after it are present all the same
C9_Witness ==
    /\ pc = "return"
    /\ Num(Len(simulationData), 1) = params.simulationYears
    /\ \E j \in Years :
          /\ j < Len(simulationData) - 1
          /\ Leq(Rec(j).startWorth, Lit0)

\* the input cut down to years 0..k, with year 0's inflation replaced by c
CutParams(p, k, c) ==
    [p EXCEPT !.simulationYears  = Num(k + 1, 1),
              !.annualYears      = IF @ = <<>> THEN <<>> ELSE SubSeq(@, 1, k + 1),
              !.annualReturns    = SubSeq(@, 1, k + 1),
              !.annualInflations = <<c>> \o SubSeq(@, 2, k + 1)]

\* C10: records 0..k depend only on initialAssets, initialWithdrawalRate, the
\* returns of years 0..k and the inflations of years 1..k: they are the records
\* of the run on the input that keeps exactly these values (no later years,
\* any inflation for year 0), so two runs that agree on them produce identical
\* records 0..k.
C10_PrefixDetermined ==
    \A k \in Years : \A c \in CalcInflations :
        calculateSimulation(CutParams(params, k, c)) = SubSeq(simulationData, 1, k + 1)

\* a run of two years with a nonzero year-0 inflation and a year 1 that acted on
\* its own inflation, whose record 0 is that of the one-year run with year-0
\* inflation 0
C10_Witness ==
    /\ Len(simulationData) >= 2
    /\ Gt(params.annualInflations[1], Lit0)
    /\ Rec(1).plannedWithdrawal # Rec(0).actualWithdrawal
    /\ calculateSimulation(CutParams(params, 0, Lit0)) = <<Rec(0)>>

\* the premise of C12: positive assets and rate, every inflation above -100
C12_Premise ==
    /\ Gt(params.initialAssets, Lit0)
    /\ Gt(params.initialWithdrawalRate, Lit0)
    /\ \A k \in DOMAIN params.annualInflations :
          Gt(params.annualInflations[k], Num(-100, 1))

\* C12: under the premise, in every year j > 0 that starts with a positive
\* worth and in which the inflation-freeze condition holds (previous return
\* negative, rateWithInflation above the initial rate), prosperity does not
\* trigger: the record's rule is InflationFrozen or CapitalPreservation and its
\* actualWithdrawal is at most the previous year's.
C12_NoProsperityWhenFrozen ==
    C12_Premise =>
        \A j \in LaterYears :
            (Gt(Rec(j).startWorth, Lit0) /\ FreezeConditionAt(j)) =>
                /\ Rec(j).rule \in {RuleFrozen, RuleLower}
                /\ Leq(Rec(j).actualWithdrawal, Rec(j - 1).actualWithdrawal)

\* a frozen year on a positive worth that capital preservation cut below the
\* previous year's withdrawal
C12_Witness ==
    /\ C12_Premise
    /\ \E j \in LaterYears :
          /\ Gt(Rec(j).startWorth, Lit0)
          /\ FreezeConditionAt(j)
          /\ Rec(j).rule = RuleLower
          /\ Lt(Rec(j).actualWithdrawal, Rec(j - 1).actualWithdrawal)

(***************************************************************************)
(* Claims about the submit handler (checked under Spec).                   *)
(***************************************************************************)
\* the request the form holds is well-formed: years is a finite number >= 1,
\* the table has exactly `years` rows, and every numeric field is finite
WellFormedRequest ==
    /\ IsFinite(initialAssetsInput)
    /\ IsFinite(initialWithdrawalRateInput)
    /\ IsFinite(simulationYearsInput.value)
    /\ Leq(Lit1, simulationYearsInput.value)
    /\ Num(Len(tableContainer), 1) = simulationYearsInput.value
    /\ \A row \in DOMAIN tableContainer :
          /\ IsFinite(tableContainer[row].return)
          /\ IsFinite(tableContainer[row].inflation)

\* C7: a request with years < 1, a number of data records other than years, or
\* a non-finite numeric field is rejected with an error before any year is
\* computed, and no result records are produced or displayed: the handler gets
\* past its checks into calculateSimulation (and on to displayResults) only
\* with a well-formed request.  The form cannot change while the handler runs.
C7_AsStated == pc # "idle" => WellFormedRequest

(***************************************************************************)
(* Claims about dataset loading (part_000, checked under Spec).            *)
(***************************************************************************)
\* the combined data of the dataset pair the two selectors show now
SelectedData == combineData(InvestmentFile(investmentAsset), InflationFile(inflationData))

\* the year column of a table or of combined data
YearColumn(rows) == [k \in DOMAIN rows |-> rows[k].year]

\* C11: once every in-flight updateForm load has completed, the input table and
\* the simulationYears field show the combined data of the currently selected
\* dataset pair; an earlier-started load never overwrites the table of a later
\* selection.  Stated on what the user cannot edit: a table that a load has
\* written (a failed load leaves none) has the year column of the selected
\* pair's combined data, and simulationYears is its length.
C11_AsStated ==
    (version = "mix" /\ loads = <<>> /\ tableContainer # <<>>) =>
        /\ YearColumn(tableContainer) = YearColumn(SelectedData)
        /\ simulationYearsInput.value = Num(Len(SelectedData), 1)

(***************************************************************************)
(* Claims about the dynamic table (app.js, checked under Spec).            *)
(***************************************************************************)
\* C13: on the app.js page, after any sequence of edits to the simulationYears
\* field the input table holds exactly one return and one inflation input for
\* every index 0 .. simulationYears - 1, so a submit finds a row for every year
\* it reads and simulates as many years as the table shows: a table that is
\* shown has exactly as many rows as the read loop of a submit would visit.
C13_AsStated ==
    (version = "app" /\ tableContainer # <<>>) =>
        Len(tableContainer) = RowsRead(simulationYearsInput.value)

====
